---- MODULE Spec2Model ----
(***************************************************************************)
(* Caregiver Support (rule-based demo), src/app.py.                        *)
(*                                                                         *)
(* Text is a sequence of one-character strings.  A regular expression of   *)
(* the source, \b(a1|a2|...)\b, is the sequence of its alternatives with   *)
(* nested groups expanded; an alternative is a sequence of characters and  *)
(* of the element "\\s*".  Fixed sentences of the program (labels,         *)
(* suggestion lines, section headers) are single string tokens, shortened  *)
(* to ASCII where the source uses typographic punctuation.                 *)
(***************************************************************************)
EXTENDS Integers, Sequences, FiniteSets, TLC

VARIABLES
  globals,      \* module-level tables read by build_response
  user_text,    \* value of the text area of tab 1
  result,       \* <<>> or <<bundle>>: the bundle built by this script run
  export_text,  \* the export lines assembled by this script run
  tab1,         \* elements rendered under "if run:" by this script run
  session,      \* st.session_state: the "_clear" flag and the care log
  tab2,         \* widgets rendered in tab 2 below the log form
  calls         \* in-flight build_response invocations and their locals

vars == <<globals, user_text, result, export_text, tab1, session, tab2, calls>>

----------------------------------------------------------------------------
(* Characters                                                              *)

Uppers == <<"A","B","C","D","E","F","G","H","I","J","K","L","M",
            "N","O","P","Q","R","S","T","U","V","W","X","Y","Z">>
Lowers == <<"a","b","c","d","e","f","g","h","i","j","k","l","m",
            "n","o","p","q","r","s","t","u","v","w","x","y","z">>
Digits == {"0","1","2","3","4","5","6","7","8","9"}

\* str.strip() with no argument and the regex class \s
Whitespace == {" ", "\t", "\n"}

\* the regex class \w, which defines \b
WordChars == {Uppers[i] : i \in 1..26} \cup {Lowers[i] : i \in 1..26}
               \cup Digits \cup {"_"}

\* str.lower() on one character
LowerChar(c) ==
  IF \E i \in 1..26 : Uppers[i] = c
    THEN Lowers[CHOOSE i \in 1..26 : Uppers[i] = c]
    ELSE c

Min(S) == CHOOSE x \in S : \A y \in S : x <= y

\* str.lstrip()
RECURSIVE LStrip(_)
LStrip(s) ==
  IF s # <<>> /\ Head(s) \in Whitespace THEN LStrip(Tail(s)) ELSE s

\* str.rstrip()
RECURSIVE RStrip(_)
RStrip(s) ==
  IF s # <<>> /\ s[Len(s)] \in Whitespace
    THEN RStrip(SubSeq(s, 1, Len(s) - 1))
    ELSE s

\* str.strip()
Strip(s) == RStrip(LStrip(s))

\* str.lower()
Lower(s) == [i \in 1..Len(s) |-> LowerChar(s[i])]

\* the characters of a string literal
Chars(s) == [i \in 1..Len(s) |-> SubSeq(s, i, i)]

\* s[:n]
Take(s, n) == SubSeq(s, 1, IF Len(s) < n THEN Len(s) ELSE n)

normalize(text) == Lower(Strip(text))

----------------------------------------------------------------------------
(* Regular expressions: re.search(pat, text, flags=re.IGNORECASE)          *)

\* \b at the gap after the first i characters of text (0 <= i <= Len(text))
WordBoundary(text, i) ==
  LET before == i >= 1 /\ text[i] \in WordChars
      after  == i < Len(text) /\ text[i + 1] \in WordChars
  IN  before # after

\* the gaps at which alt[k..] can end when it starts at gap i
RECURSIVE MatchEnds(_, _, _, _)
MatchEnds(alt, k, text, i) ==
  IF k > Len(alt) THEN {i}
  ELSE IF alt[k] = "\\s*"
    THEN MatchEnds(alt, k + 1, text, i)
           \cup (IF i < Len(text) /\ text[i + 1] \in Whitespace
                   THEN MatchEnds(alt, k, text, i + 1)
                   ELSE {})
  ELSE IF i < Len(text) /\ LowerChar(alt[k]) = LowerChar(text[i + 1])
    THEN MatchEnds(alt, k + 1, text, i + 1)
    ELSE {}

\* a wrong call: re.match, which matches at the start of the text only
re_match(pat, text) ==
  \E a \in 1..Len(pat) :
    \E e \in MatchEnds(pat[a], 1, text, 0) :
      WordBoundary(text, 0) /\ WordBoundary(text, e)

re_search(pat, text) ==
  LET starts == {i \in 0..Len(text) : WordBoundary(text, i)}
  IN  \E i \in starts : \E a \in 1..Len(pat) :
        \E e \in MatchEnds(pat[a], 1, text, i) : WordBoundary(text, e)

----------------------------------------------------------------------------
(* Pattern tables                                                          *)

\* the regex element \s*
SStar == <<"\\s*">>

EMERGENCY_PATTERNS ==
  <<
   [pat |-> <<Chars("chest pain"),
               Chars("pressure in chest"),
               Chars("heart attack")>>,
    label |-> "Possible chest-pain emergency"],
   [pat |-> <<Chars("trouble breathing"),
               Chars("can't breathe"),
               Chars("cannot breathe"),
               Chars("shortness of breath"),
               Chars("turning blue")>>,
    label |-> "Breathing emergency"],
   [pat |-> <<Chars("stroke"),
               Chars("face droop"),
               Chars("slurred speech"),
               Chars("arm weakness"),
               Chars("FAST")>>,
    label |-> "Possible stroke signs"],
   [pat |-> <<Chars("unconscious"),
               Chars("unresponsive"),
               Chars("won't wake"),
               Chars("not waking")>>,
    label |-> "Unresponsive person"],
   [pat |-> <<Chars("seizure"),
               Chars("convulsion")>>,
    label |-> "Seizure/convulsion"],
   [pat |-> <<Chars("heavy bleeding"),
               Chars("won't stop bleeding"),
               Chars("bleeding a lot")>>,
    label |-> "Severe bleeding"],
   [pat |-> <<Chars("suicidal"),
               Chars("kill myself"),
               Chars("end my life"),
               Chars("self harm")>>,
    label |-> "Self-harm risk"],
   [pat |-> <<Chars("overdose"),
               Chars("took too many pills"),
               Chars("poisoned")>>,
    label |-> "Possible overdose/poisoning"]
  >>

URGENT_PATTERNS ==
  <<
   [pat |-> <<Chars("fever") \o SStar \o Chars("over") \o SStar \o Chars("103"),
               Chars("fever") \o SStar \o Chars("above") \o SStar \o Chars("103"),
               Chars("fever") \o SStar \o Chars("103")>>,
    label |-> "High fever"],
   [pat |-> <<Chars("new confusion"),
               Chars("sudden confusion"),
               Chars("delirium"),
               Chars("not making sense")>>,
    label |-> "Sudden confusion"],
   [pat |-> <<Chars("fall"),
               Chars("fell"),
               Chars("hit their head"),
               Chars("hit her head"),
               Chars("hit his head"),
               Chars("head injury")>>,
    label |-> "Fall or head impact"],
   [pat |-> <<Chars("severe pain"),
               Chars("worst pain")>>,
    label |-> "Severe pain"],
   [pat |-> <<Chars("dehydrated"),
               Chars("no urine"),
               Chars("not peeing"),
               Chars("dry mouth")>>,
    label |-> "Possible dehydration"]
  >>

MEDICATION_MENTION ==
  <<Chars("med"),
    Chars("meds"),
    Chars("medicine"),
    Chars("medication"),
    Chars("pill"),
    Chars("dose"),
    Chars("dosage"),
    Chars("prescription"),
    Chars("refill")>>

TOPIC_KEYWORDS ==
  <<
   [topic |-> "agitation_or_anxiety",
    pats |-> <<<<Chars("agitated"),
               Chars("agitation"),
               Chars("anxious"),
               Chars("panic"),
               Chars("restless"),
               Chars("irritable")>>>>],
   [topic |-> "sleep",
    pats |-> <<<<Chars("can't sleep"),
               Chars("insomnia"),
               Chars("sleeping all day"),
               Chars("sleepy")>>>>],
   [topic |-> "pain",
    pats |-> <<<<Chars("pain"),
               Chars("hurts"),
               Chars("ache"),
               Chars("aching")>>>>],
   [topic |-> "memory_or_confusion",
    pats |-> <<<<Chars("forgetful"),
               Chars("memory"),
               Chars("confused"),
               Chars("confusion"),
               Chars("dementia"),
               Chars("delirium")>>>>],
   [topic |-> "eating_drinking",
    pats |-> <<<<Chars("not eating"),
               Chars("not drinking"),
               Chars("won't eat"),
               Chars("won't drink"),
               Chars("loss of appetite")>>>>],
   [topic |-> "caregiver_stress",
    pats |-> <<<<Chars("burnout"),
               Chars("overwhelmed"),
               Chars("exhausted"),
               Chars("can't do this"),
               Chars("no support")>>>>],
   [topic |-> "safety",
    pats |-> <<<<Chars("wandering"),
               Chars("left the stove on"),
               Chars("unsafe"),
               Chars("falls risk"),
               Chars("choking")>>>>],
   [topic |-> "mood",
    pats |-> <<<<Chars("depressed"),
               Chars("hopeless"),
               Chars("crying"),
               Chars("sad")>>>>]
  >>

GENERAL_STEPS ==
  <<"Make sure the person is **safe right now** (remove hazards, ensure supervision if needed).",
    "Gather **facts**: when it started, what changed, triggers, what helped/worsened it.",
    "If symptoms are **new, severe, or worsening**, contact a licensed clinician for guidance.",
    "If there's any **immediate danger**, call your local emergency number.">>

CARE_LOG_FIELDS ==
  <<"timestamp", "what_happened", "triggers_context", "what_helped", "notes">>

\* the module namespace after import
ModuleGlobals ==
  [EMERGENCY_PATTERNS |-> EMERGENCY_PATTERNS,
   URGENT_PATTERNS    |-> URGENT_PATTERNS,
   MEDICATION_MENTION |-> MEDICATION_MENTION,
   TOPIC_KEYWORDS     |-> TOPIC_KEYWORDS,
   GENERAL_STEPS      |-> GENERAL_STEPS]

----------------------------------------------------------------------------
(* Analyzer                                                                *)

find_matches(patterns, text) ==
  LET hit(p) == re_search(p.pat, text)
      hits   == SelectSeq(patterns, hit)
  IN  [i \in 1..Len(hits) |-> hits[i].label]

\* sorted() on topic names: the names in str order
TopicNamesSorted ==
  <<"agitation_or_anxiety", "caregiver_stress", "eating_drinking",
    "memory_or_confusion", "mood", "pain", "safety", "sleep">>

detect_topics(text) ==
  LET hit(kw) == \E j \in 1..Len(kw.pats) : re_search(kw.pats[j], text)
      found   == SelectSeq(globals.TOPIC_KEYWORDS, hit)
      topics  == {found[i].topic : i \in 1..Len(found)}
      in(n)   == n \in topics
  IN  SelectSeq(TopicNamesSorted, in)

EmergencyActions ==
  <<"**Call your local emergency number now** (e.g., 911 in the U.S.).",
    "If it's safe, stay with the person and keep them comfortable until help arrives.",
    "If you can, note **when symptoms started** and any key history to share with responders.">>

UrgentActions ==
  <<"Consider calling a licensed clinician/nurse line **today** for guidance, especially if symptoms are new or worsening.",
    "If there was a **fall/head impact**, monitor closely and seek professional guidance-especially for new symptoms.">>

MedicationNote ==
  "**Medication note:** This app cannot advise on medicines. **Do not start/stop/change doses** based on this tool. Contact a **pharmacist or prescriber** for medication questions or side effects."

AgitationBlock ==
  <<"**Agitation/anxiety support (general):**",
    "- Reduce stimulation (lower noise/light), offer calm reassurance, and keep your voice steady.",
    "- Check basic needs: hunger, thirst, toileting, temperature comfort.",
    "- Try a simple grounding activity: slow breathing together, familiar music, short walk if safe.">>

SleepBlock ==
  <<"**Sleep support (general):**",
    "- Keep a consistent routine (wake time, light exposure in the morning).",
    "- Limit caffeine late in the day and reduce screen/light at night.",
    "- If sudden major sleep changes occur, consider discussing with a clinician.">>

PainBlock ==
  <<"**Pain support (general):**",
    "- Ask where it hurts and what makes it better/worse; note severity and timing.",
    "- Use comfort measures (rest, positioning, gentle heat/cold if appropriate and safe).",
    "- New or severe pain warrants professional guidance.">>

MemoryBlock ==
  <<"**Confusion/memory changes (general):**",
    "- Use simple, reassuring cues; avoid arguing; offer one step at a time.",
    "- Note if confusion is **new/sudden**-that can be urgent and worth clinician input.">>

EatingBlock ==
  <<"**Eating/drinking support (general):**",
    "- Offer small sips/snacks more frequently and make food easy to chew/swallow.",
    "- Watch for dehydration signs (very dark urine, dizziness, very dry mouth) and seek guidance if concerned.">>

SafetyBlock ==
  <<"**Safety support (general):**",
    "- Reduce fall risks (clear pathways, good lighting, assistive devices if already used).",
    "- If wandering risk: consider supervision, door alarms, ID bracelet, and a plan for if they leave.">>

MoodBlock ==
  <<"**Mood support (general):**",
    "- Listen and validate feelings; try gentle structure and social connection if welcome.",
    "- If you notice any self-harm language or intent, treat it as urgent and seek immediate help.">>

CaregiverBlock ==
  <<"**Caregiver support (you matter too):**",
    "- If possible, take a short break (even 5-10 minutes) and hydrate/eat.",
    "- Ask someone specific for help (e.g., 'Can you sit with them for 30 minutes today?').",
    "- Consider local respite, caregiver groups, or talking with a clinician/therapist for support.">>

Divider == "---"

GeneralHeader == "**Helpful next steps (general):**"

\* [f"- {x}" for x in GENERAL_STEPS]
GeneralItems ==
  [i \in 1..Len(globals.GENERAL_STEPS) |-> "- " \o globals.GENERAL_STEPS[i]]

TRACKING ==
  <<"- When it started / how it changed over time",
    "- Triggers (time of day, meals, new stressors, activity)",
    "- What helped (calm environment, hydration, rest, distraction)",
    "- Sleep, food, fluids, toileting changes",
    "- Any new safety risks (falls, wandering, choking)">>

\* the slice bound of the "What happened" field
TruncLen == 400

ClinicianHead ==
  "Hello, I'm caring for someone and I'm concerned about the following:\n\n- What happened: "

ClinicianTail ==
  "\n- When it started / timeline:\n- Severity (mild/moderate/severe) and what has changed:\n- What we tried and what helped:\n- Any safety concerns (falls, breathing, confusion, etc.):\n\nCould you advise on next steps and whether we should be seen urgently?\n"

\* a wrong argument: the normalized text is embedded
ClinicianMsgNormalized(text) ==
  <<ClinicianHead>> \o Take(normalize(text), TruncLen) \o <<ClinicianTail>>

\* the f-string: fixed head, the embedded copy of the input, fixed tail
ClinicianMsg(text) ==
  <<ClinicianHead>> \o Take(Strip(text), TruncLen) \o <<ClinicianTail>>

\* a wrong precedence: the urgent rules are looked at first
UrgencyUrgentFirst(emergency_hits, urgent_hits) ==
  IF urgent_hits # <<>>
    THEN [urgency |-> "URGENT - contact a clinician soon", urgency_color |-> "orange"]
  ELSE IF emergency_hits # <<>>
    THEN [urgency |-> "EMERGENCY - act now", urgency_color |-> "red"]
  ELSE [urgency |-> "NON-URGENT - supportive steps & monitoring",
        urgency_color |-> "green"]

Urgency(emergency_hits, urgent_hits) ==
  IF emergency_hits # <<>>
    THEN [urgency |-> "EMERGENCY - act now", urgency_color |-> "red"]
  ELSE IF urgent_hits # <<>>
    THEN [urgency |-> "URGENT - contact a clinician soon", urgency_color |-> "orange"]
  ELSE [urgency |-> "NON-URGENT - supportive steps & monitoring",
        urgency_color |-> "green"]

InTopics(name, topics) == \E i \in 1..Len(topics) : topics[i] = name

TopicBlock(name) ==
  CASE name = "agitation_or_anxiety" -> AgitationBlock
    [] name = "sleep"               -> SleepBlock
    [] name = "pain"                -> PainBlock
    [] name = "memory_or_confusion" -> MemoryBlock
    [] name = "eating_drinking"     -> EatingBlock
    [] name = "safety"              -> SafetyBlock
    [] name = "mood"                -> MoodBlock
    [] name = "caregiver_stress"    -> CaregiverBlock

RECURSIVE BlocksOf(_)
BlocksOf(names) ==
  IF names = <<>> THEN <<>> ELSE TopicBlock(Head(names)) \o BlocksOf(Tail(names))

\* a wrong loop: the topic blocks follow the sorted list of topics
SuggestionsSortedOrder(emergency_hits, urgent_hits, topics, mentions_meds) ==
     (IF emergency_hits # <<>> THEN EmergencyActions ELSE <<>>)
  \o (IF urgent_hits # <<>> /\ emergency_hits = <<>> THEN UrgentActions ELSE <<>>)
  \o (IF mentions_meds THEN <<MedicationNote>> ELSE <<>>)
  \o BlocksOf(topics)
  \o <<Divider, GeneralHeader>> \o GeneralItems

\* a wrong condition: the medication note is left out of emergency results
SuggestionsNoNoteInEmergency(emergency_hits, urgent_hits, topics, mentions_meds) ==
     (IF emergency_hits # <<>> THEN EmergencyActions ELSE <<>>)
  \o (IF urgent_hits # <<>> /\ emergency_hits = <<>> THEN UrgentActions ELSE <<>>)
  \o (IF mentions_meds /\ emergency_hits = <<>> THEN <<MedicationNote>> ELSE <<>>)
  \o BlocksOf(SelectSeq(<<"agitation_or_anxiety", "sleep", "pain",
                          "memory_or_confusion", "eating_drinking", "safety",
                          "mood", "caregiver_stress">>,
                        LAMBDA n : InTopics(n, topics)))
  \o <<Divider, GeneralHeader>> \o GeneralItems

Suggestions(emergency_hits, urgent_hits, topics, mentions_meds) ==
     (IF emergency_hits # <<>> THEN EmergencyActions ELSE <<>>)
  \o (IF urgent_hits # <<>> /\ emergency_hits = <<>> THEN UrgentActions ELSE <<>>)
  \o (IF mentions_meds THEN <<MedicationNote>> ELSE <<>>)
  \o (IF InTopics("agitation_or_anxiety", topics) THEN AgitationBlock ELSE <<>>)
  \o (IF InTopics("sleep", topics) THEN SleepBlock ELSE <<>>)
  \o (IF InTopics("pain", topics) THEN PainBlock ELSE <<>>)
  \o (IF InTopics("memory_or_confusion", topics) THEN MemoryBlock ELSE <<>>)
  \o (IF InTopics("eating_drinking", topics) THEN EatingBlock ELSE <<>>)
  \o (IF InTopics("safety", topics) THEN SafetyBlock ELSE <<>>)
  \o (IF InTopics("mood", topics) THEN MoodBlock ELSE <<>>)
  \o (IF InTopics("caregiver_stress", topics) THEN CaregiverBlock ELSE <<>>)
  \o <<Divider, GeneralHeader>> \o GeneralItems

build_response(text) ==
  LET t              == normalize(text)
      emergency_hits == find_matches(globals.EMERGENCY_PATTERNS, t)
      urgent_hits    == find_matches(globals.URGENT_PATTERNS, t)
      topics         == detect_topics(t)
      mentions_meds  == re_search(globals.MEDICATION_MENTION, t)
      u              == Urgency(emergency_hits, urgent_hits)
  IN  [urgency        |-> u.urgency,
       urgency_color  |-> u.urgency_color,
       emergency_hits |-> emergency_hits,
       urgent_hits    |-> urgent_hits,
       topics         |-> topics,
       mentions_meds  |-> mentions_meds,
       suggestions    |-> Suggestions(emergency_hits, urgent_hits, topics,
                                      mentions_meds),
       tracking       |-> TRACKING,
       clinician_msg  |-> ClinicianMsg(text)]

----------------------------------------------------------------------------
(* Streamlit shell: one action is one run of the script, started by one    *)
(* widget event                                                            *)

\* datetime.now() is one of the instants 1..MaxTime
MaxTime == 2
Times == 1..MaxTime

\* datetime.isoformat(timespec="seconds")
isoformat(ts) == ToString(ts)

\* sep.join(items) on strings
RECURSIVE JoinStr(_, _)
JoinStr(sep, items) ==
  IF items = <<>> THEN ""
  ELSE IF Len(items) = 1 THEN items[1]
  ELSE items[1] \o sep \o JoinStr(sep, Tail(items))

\* "\n".join(lines) on lines that are token sequences
RECURSIVE JoinLines(_)
JoinLines(lines) ==
  IF lines = <<>> THEN <<>>
  ELSE IF Len(lines) = 1 THEN lines[1]
  ELSE lines[1] \o <<"\n">> \o JoinLines(Tail(lines))

\* item.startswith(prefix)
StartsWith(s, prefix) ==
  Len(s) >= Len(prefix) /\ SubSeq(s, 1, Len(prefix)) = prefix

\* a wrong loop: the divider is exported like any other item
ExportSuggestionLinesKeepDivider(suggestions) ==
  [i \in 1..Len(suggestions) |-> <<"- " \o suggestions[i]>>]

\* for item in suggestions: if item != "---": append(f"- {item}")
ExportSuggestionLines(suggestions) ==
  LET keep(item) == item # Divider
      kept       == SelectSeq(suggestions, keep)
  IN  [i \in 1..Len(kept) |-> <<"- " \o kept[i]>>]

\* a wrong line: the truncated copy of the message is exported
ExportInputLineTruncated(text) == Take(Strip(text), TruncLen)

\* export_text.append(user_text.strip())
ExportInputLine(text) == Strip(text)

ExportText(text, r, ts) ==
     << <<"Caregiver Support (Rule-Based Demo) - Export">>,
        <<"Generated: " \o isoformat(ts)>>,
        <<>>,
        <<"USER INPUT:">>,
        ExportInputLine(text),
        <<>>,
        <<"URGENCY: " \o r.urgency>> >>
  \o (IF r.emergency_hits # <<>>
        THEN << <<"EMERGENCY FLAGS: " \o JoinStr(", ", r.emergency_hits)>> >>
        ELSE <<>>)
  \o (IF r.urgent_hits # <<>>
        THEN << <<"URGENT FLAGS: " \o JoinStr(", ", r.urgent_hits)>> >>
        ELSE <<>>)
  \o (IF r.topics # <<>>
        THEN << <<"TOPICS: " \o JoinStr(", ", r.topics)>> >>
        ELSE <<>>)
  \o << <<>>, <<"SUGGESTIONS:">> >>
  \o ExportSuggestionLines(r.suggestions)
  \o << <<>>, <<"TRACKING CHECKLIST:">> >>
  \o [i \in 1..Len(r.tracking) |-> <<r.tracking[i]>>]
  \o << <<>>, <<"CLINICIAN MESSAGE TEMPLATE:">>, r.clinician_msg >>

Widget(w, body) == [w |-> w, body |-> body]

RenderSuggestion(item) ==
  IF item = Divider THEN Widget("divider", <<>>)
  ELSE Widget("markdown",
              <<IF StartsWith(item, "**") THEN item ELSE "- " \o item>>)

\* what the branch "if run: ... else:" renders for a bundle
RenderResult(r, export) ==
     <<Widget(IF r.urgency_color = "red" THEN "error"
              ELSE IF r.urgency_color = "orange" THEN "warning"
              ELSE "success",
              <<r.urgency>>)>>
  \o (IF r.emergency_hits # <<>>
        THEN <<Widget("markdown", <<"**Matched emergency flags:**">>),
               Widget("write", <<"* " \o JoinStr("\n* ", r.emergency_hits)>>)>>
        ELSE <<>>)
  \o (IF r.urgent_hits # <<>>
        THEN <<Widget("markdown", <<"**Matched urgent flags:**">>),
               Widget("write", <<"* " \o JoinStr("\n* ", r.urgent_hits)>>)>>
        ELSE <<>>)
  \o (IF r.topics # <<>>
        THEN <<Widget("markdown", <<"**Detected topics (keyword-based):**">>),
               Widget("write", <<JoinStr(", ", r.topics)>>)>>
        ELSE <<>>)
  \o <<Widget("subheader", <<"Suggested next steps (non-diagnostic)">>)>>
  \o [i \in 1..Len(r.suggestions) |-> RenderSuggestion(r.suggestions[i])]
  \o <<Widget("expander_markdown", <<JoinStr("\n", r.tracking)>>),
       Widget("expander_code", r.clinician_msg),
       Widget("download_button", JoinLines(export))>>

EmptyInputWarning ==
  <<Widget("warning", <<"Please enter a brief description first.">>)>>

\* what tab 2 renders below the form for a care log
RenderLog(care_log) ==
  IF care_log # <<>>
    THEN <<[w |-> "dataframe", rows |-> care_log],
           [w |-> "download_button", rows |-> care_log],
           [w |-> "button", rows |-> <<>>]>>
    ELSE <<[w |-> "info", rows |-> <<>>]>>

Offered(w) == \E i \in 1..Len(tab2) : tab2[i].w = w

\* a wrong guard: "if not user_text"
IsBlankNoStrip(text) == text = <<>>

\* not user_text.strip()
IsBlank(text) == Strip(text) = <<>>

\* a run in which the "Generate suggestions" button is not the event
NoRun ==
  /\ result' = <<>>
  /\ export_text' = <<>>
  /\ tab1' = <<>>

\* the text area is edited
TypeText(text) ==
  /\ user_text' = text
  /\ NoRun
  /\ tab2' = RenderLog(session.care_log)
  /\ UNCHANGED <<globals, session, calls>>

\* "Generate suggestions" on empty or whitespace-only text
GenerateEmpty ==
  /\ IsBlank(user_text)
  /\ result' = <<>>
  /\ export_text' = <<>>
  /\ tab1' = EmptyInputWarning
  /\ tab2' = RenderLog(session.care_log)
  /\ UNCHANGED <<globals, user_text, session, calls>>

\* "Generate suggestions" on other text; the export is stamped with an
\* instant ts
GenerateResult ==
  /\ ~IsBlank(user_text)
  /\ result' = <<build_response(user_text)>>
  /\ \E ts \in Times : export_text' = ExportText(user_text, result'[1], ts)
  /\ tab1' = RenderResult(result'[1], export_text')
  /\ tab2' = RenderLog(session.care_log)
  /\ UNCHANGED <<globals, user_text, session, calls>>

Generate == GenerateEmpty \/ GenerateResult

\* "Clear": the callback sets "_clear", the script resets it and reruns
ClearClick ==
  /\ session' = [session EXCEPT !.clear = <<FALSE>>]
  /\ NoRun
  /\ tab2' = RenderLog(session.care_log)
  /\ UNCHANGED <<globals, user_text, calls>>

\* the download button of the suggestions export
DownloadExport ==
  /\ \E i \in 1..Len(tab1) : tab1[i].w = "download_button"
  /\ NoRun
  /\ tab2' = RenderLog(session.care_log)
  /\ UNCHANGED <<globals, user_text, session, calls>>

\* the care log holds at most MaxLog entries in the model
MaxLog == 2

\* the values typed into the four fields of the log form
FormInputs ==
  {[what |-> Chars(" Agitated "), triggers |-> Chars("TV"),
    helped |-> Chars("Walk\n"), notes |-> <<>>],
   [what |-> Chars("fell"), triggers |-> Chars("  "),
    helped |-> <<>>, notes |-> Chars("\tate")]}

\* a wrong call: the entry is inserted at the front of the log
SubmitLogPrepend(form, ts) ==
  /\ Len(session.care_log) < MaxLog
  /\ LET entry == [timestamp        |-> isoformat(ts),
                   what_happened    |-> Strip(form.what),
                   triggers_context |-> Strip(form.triggers),
                   what_helped      |-> Strip(form.helped),
                   notes            |-> Strip(form.notes)]
         log   == <<entry>> \o session.care_log
     IN  /\ session' = [session EXCEPT !.care_log = log]
         /\ tab2' = <<[w |-> "success", rows |-> <<>>]>> \o RenderLog(log)
  /\ NoRun
  /\ UNCHANGED <<globals, user_text, calls>>

\* "Add log entry" at instant ts
SubmitLog(form, ts) ==
  /\ Len(session.care_log) < MaxLog
  /\ LET entry == [timestamp        |-> isoformat(ts),
                   what_happened    |-> Strip(form.what),
                   triggers_context |-> Strip(form.triggers),
                   what_helped      |-> Strip(form.helped),
                   notes            |-> Strip(form.notes)]
         log   == Append(session.care_log, entry)
     IN  /\ session' = [session EXCEPT !.care_log = log]
         /\ tab2' = <<[w |-> "success", rows |-> <<>>]>> \o RenderLog(log)
  /\ NoRun
  /\ UNCHANGED <<globals, user_text, calls>>

\* "Download log as CSV"
DownloadCsv ==
  /\ Offered("download_button")
  /\ NoRun
  /\ tab2' = RenderLog(session.care_log)
  /\ UNCHANGED <<globals, user_text, session, calls>>

\* "Clear all log entries": the log is reset and the script reruns
ClearLog ==
  /\ Offered("button")
  /\ session' = [session EXCEPT !.care_log = <<>>]
  /\ NoRun
  /\ tab2' = RenderLog(<<>>)
  /\ UNCHANGED <<globals, user_text, calls>>

----------------------------------------------------------------------------
(* build_response run as concurrent invocations, one statement at a time   *)

NumCalls == 2
Calls == 1..NumCalls

IdleCall ==
  [pc |-> "idle", user_text |-> <<>>, t |-> <<>>, emergency_hits |-> <<>>,
   urgent_hits |-> <<>>, topics |-> <<>>, mentions_meds |-> FALSE,
   ret |-> <<>>]

\* build_response(text) is entered by invocation c
Invoke(c, text) ==
  /\ calls[c].pc \in {"idle", "done"}
  /\ calls' = [calls EXCEPT ![c] = [IdleCall EXCEPT !.pc = "normalize",
                                                     !.user_text = text]]
  /\ UNCHANGED <<globals, user_text, result, export_text, tab1, session, tab2>>

StepNormalize(c) ==
  /\ calls[c].pc = "normalize"
  /\ calls' = [calls EXCEPT ![c].t = normalize(calls[c].user_text),
                            ![c].pc = "emergency"]
  /\ UNCHANGED <<globals, user_text, result, export_text, tab1, session, tab2>>

\* a wrong list: the hits are collected in a list shared by the invocations
StepEmergencyShared(c) ==
  /\ calls[c].pc = "emergency"
  /\ calls' = [calls EXCEPT
                 ![c].emergency_hits =
                     calls[(c % NumCalls) + 1].emergency_hits
                       \o find_matches(globals.EMERGENCY_PATTERNS, calls[c].t),
                 ![c].pc = "urgent"]
  /\ UNCHANGED <<globals, user_text, result, export_text, tab1, session, tab2>>

StepEmergency(c) ==
  /\ calls[c].pc = "emergency"
  /\ calls' = [calls EXCEPT
                 ![c].emergency_hits =
                     find_matches(globals.EMERGENCY_PATTERNS, calls[c].t),
                 ![c].pc = "urgent"]
  /\ UNCHANGED <<globals, user_text, result, export_text, tab1, session, tab2>>

StepUrgent(c) ==
  /\ calls[c].pc = "urgent"
  /\ calls' = [calls EXCEPT
                 ![c].urgent_hits =
                     find_matches(globals.URGENT_PATTERNS, calls[c].t),
                 ![c].pc = "topics"]
  /\ UNCHANGED <<globals, user_text, result, export_text, tab1, session, tab2>>

StepTopics(c) ==
  /\ calls[c].pc = "topics"
  /\ calls' = [calls EXCEPT ![c].topics = detect_topics(calls[c].t),
                            ![c].pc = "meds"]
  /\ UNCHANGED <<globals, user_text, result, export_text, tab1, session, tab2>>

StepMeds(c) ==
  /\ calls[c].pc = "meds"
  /\ calls' = [calls EXCEPT
                 ![c].mentions_meds =
                     re_search(globals.MEDICATION_MENTION, calls[c].t),
                 ![c].pc = "assemble"]
  /\ UNCHANGED <<globals, user_text, result, export_text, tab1, session, tab2>>

\* lines 91-206: urgency, suggestions, tracking, message and the return
StepReturn(c) ==
  /\ calls[c].pc = "assemble"
  /\ LET k == calls[c]
         u == Urgency(k.emergency_hits, k.urgent_hits)
         r == [urgency        |-> u.urgency,
               urgency_color  |-> u.urgency_color,
               emergency_hits |-> k.emergency_hits,
               urgent_hits    |-> k.urgent_hits,
               topics         |-> k.topics,
               mentions_meds  |-> k.mentions_meds,
               suggestions    |-> Suggestions(k.emergency_hits, k.urgent_hits,
                                              k.topics, k.mentions_meds),
               tracking       |-> TRACKING,
               clinician_msg  |-> ClinicianMsg(k.user_text)]
     IN  calls' = [calls EXCEPT ![c].ret = <<r>>, ![c].pc = "done"]
  /\ UNCHANGED <<globals, user_text, result, export_text, tab1, session, tab2>>

----------------------------------------------------------------------------
(* Inputs                                                                  *)

\* s repeated n times
Rep(s, n) == [i \in 1..n |-> s]

Vocabulary ==
  <<Chars("chest pain"), Chars("FAST"), Chars("fell"),
    Chars("Fever \tabove103"), Chars("pill"), Chars("pills"),
    Chars("Agitated"), Chars("can't sleep"), Chars("hurts"),
    Chars("confused"), Chars("won't eat"), Chars("unsafe"), Chars("sad"),
    Chars("burnout"), Chars("breakfast")>>

\* a text has at most MaxWords phrases of the vocabulary
MaxWords == 2

\* the phrases are taken in vocabulary order or in the reverse order
Monotone(ixs) ==
  \/ \A i \in 1..(Len(ixs) - 1) : ixs[i] < ixs[i + 1]
  \/ \A i \in 1..(Len(ixs) - 1) : ixs[i] > ixs[i + 1]

PhraseOrders ==
  {ixs \in UNION {[1..n -> 1..Len(Vocabulary)] : n \in 0..MaxWords} :
     Monotone(ixs)}

RECURSIVE JoinWords(_)
JoinWords(ixs) ==
  IF ixs = <<>> THEN <<>>
  ELSE IF Len(ixs) = 1 THEN Vocabulary[ixs[1]]
  ELSE Vocabulary[ixs[1]] \o <<" ">> \o JoinWords(Tail(ixs))

\* whitespace typed before and after the text
Pads == {[lead |-> <<>>, trail |-> <<>>], [lead |-> <<" ">>, trail |-> <<"\n">>]}

ShortTexts ==
  {pad.lead \o JoinWords(ixs) \o pad.trail : pad \in Pads, ixs \in PhraseOrders}

\* texts of TruncLen - 2 to TruncLen + MaxOver characters
MaxOver == 2

LongTexts ==
  {pad.lead \o Chars("Fell pill ") \o Rep("x", n) \o pad.trail :
     pad \in Pads, n \in (TruncLen - 12)..(TruncLen - 10 + MaxOver)}

Scenario1 ==
  Chars("Mom fell yesterday and seems more confused today. She won't eat much and is agitated in the evening.")

Scenario2 == Chars("chest pain and can't breathe")

Scenario4 == Chars("need to refill her prescription")

AllTopics ==
  Chars("overwhelmed and crying, wandering, not drinking, dementia, aching, sleepy, Restless; took too many pills, new dose")

ScenarioTexts == {Scenario1, Scenario2, Scenario4, AllTopics}

InputTexts == ShortTexts \cup LongTexts \cup ScenarioTexts

\* the texts typed in a session
SessionTexts ==
  {<<>>, Chars(" \n"), Chars("chest pain"), Chars(" Fell, took a pill "),
   Chars("sad")}

\* the texts passed to concurrent invocations
CallTexts == {<<>>, Chars("chest pain"), Chars(" Fell, took a pill ")}

----------------------------------------------------------------------------
(* Specifications                                                          *)

\* the page after the first run of the script, before any event
InitPage ==
  /\ globals = ModuleGlobals
  /\ result = <<>>
  /\ export_text = <<>>
  /\ tab1 = <<>>
  /\ session = [clear |-> <<>>, care_log |-> <<>>]
  /\ tab2 = RenderLog(<<>>)
  /\ calls = [c \in Calls |-> IdleCall]

Init == user_text = <<>> /\ InitPage

Next ==
  \/ \E text \in SessionTexts : TypeText(text)
  \/ GenerateEmpty
  \/ GenerateResult
  \/ ClearClick
  \/ DownloadExport
  \/ \E form \in FormInputs, ts \in Times : SubmitLog(form, ts)
  \/ DownloadCsv
  \/ ClearLog

Spec == Init /\ [][Next]_vars

\* the "Generate suggestions" handler on every input text
InitClassify == user_text \in InputTexts /\ InitPage

NextClassify ==
  \/ GenerateEmpty
  \/ GenerateResult

SpecClassify == InitClassify /\ [][NextClassify]_vars

\* interleaved invocations of build_response
NextCalls ==
  \E c \in Calls :
    \/ \E text \in CallTexts : Invoke(c, text)
    \/ StepNormalize(c)
    \/ StepEmergency(c)
    \/ StepUrgent(c)
    \/ StepTopics(c)
    \/ StepMeds(c)
    \/ StepReturn(c)

SpecCalls == Init /\ [][NextCalls]_vars

----------------------------------------------------------------------------
(* Properties                                                              *)

\* what the rules of the source say of a raw input text
RuleMatched(rules, text) ==
  \E i \in 1..Len(rules) : re_search(rules[i].pat, normalize(text))

EmergencyMatched(text) == RuleMatched(EMERGENCY_PATTERNS, text)
UrgentMatched(text) == RuleMatched(URGENT_PATTERNS, text)
MedsMatched(text) == re_search(MEDICATION_MENTION, normalize(text))

TopicMatched(name, text) ==
  \E i \in 1..Len(TOPIC_KEYWORDS) :
    /\ TOPIC_KEYWORDS[i].topic = name
    /\ \E j \in 1..Len(TOPIC_KEYWORDS[i].pats) :
         re_search(TOPIC_KEYWORDS[i].pats[j], normalize(text))

Items(s) == {s[i] : i \in 1..Len(s)}

TierEmergency == "EMERGENCY - act now"
TierUrgent == "URGENT - contact a clinician soon"
TierNonUrgent == "NON-URGENT - supportive steps & monitoring"

\* C1: the tier of a bundle is EMERGENCY iff an emergency rule matched the
\* input, URGENT iff no emergency rule and an urgent rule matched, NON_URGENT
\* iff neither matched; the colour tag is red, orange, green respectively.
C1_TierByPrecedence ==
  result # <<>> =>
    LET r == result[1]
        e == EmergencyMatched(user_text)
        u == UrgentMatched(user_text)
    IN  /\ r.urgency \in {TierEmergency, TierUrgent, TierNonUrgent}
        /\ (r.urgency = TierEmergency) <=> e
        /\ (r.urgency = TierUrgent) <=> (~e /\ u)
        /\ (r.urgency = TierNonUrgent) <=> (~e /\ ~u)
        /\ (r.urgency_color = "red") <=> (r.urgency = TierEmergency)
        /\ (r.urgency_color = "orange") <=> (r.urgency = TierUrgent)
        /\ (r.urgency_color = "green") <=> (r.urgency = TierNonUrgent)

\* an emergency rule and an urgent rule both matched, and the tier is EMERGENCY
C1_Witness ==
  /\ result # <<>>
  /\ EmergencyMatched(user_text) /\ UrgentMatched(user_text)
  /\ result[1].urgency = TierEmergency

\* the blocks of the claim, from what matched in the input
ExpectedSuggestions(text) ==
  LET e == EmergencyMatched(text)
      u == UrgentMatched(text)
      block(name, lines) == IF TopicMatched(name, text) THEN lines ELSE <<>>
  IN     (IF e THEN EmergencyActions ELSE <<>>)
      \o (IF u /\ ~e THEN UrgentActions ELSE <<>>)
      \o (IF MedsMatched(text) THEN <<MedicationNote>> ELSE <<>>)
      \o block("agitation_or_anxiety", AgitationBlock)
      \o block("sleep", SleepBlock)
      \o block("pain", PainBlock)
      \o block("memory_or_confusion", MemoryBlock)
      \o block("eating_drinking", EatingBlock)
      \o block("safety", SafetyBlock)
      \o block("mood", MoodBlock)
      \o block("caregiver_stress", CaregiverBlock)
      \o <<Divider, GeneralHeader>>
      \o [i \in 1..Len(GENERAL_STEPS) |-> "- " \o GENERAL_STEPS[i]]

\* C2: the suggestion sequence is the concatenation, in the fixed order, of
\* the emergency lines, the urgent lines, the medication line, the matched
\* topic blocks in registration order and, as its last six elements, the
\* divider, the general header and the four general steps; the divider occurs
\* once.
C2_SuggestionOrder ==
  result # <<>> =>
    LET s == result[1].suggestions
    IN  /\ s = ExpectedSuggestions(user_text)
        /\ Len(s) >= 6
        /\ s[Len(s) - 5] = Divider
        /\ Cardinality({i \in 1..Len(s) : s[i] = Divider}) = 1

\* all eight topics matched, mentioned in an order that is neither the
\* registration order nor the sorted order
C2_Witness ==
  /\ result # <<>>
  /\ user_text = AllTopics
  /\ Len(result[1].topics) = 8
  /\ result[1].mentions_meds

\* C3: the medication line is in the suggestions iff the medication regex
\* matched the input, in each of the three tiers.
C3_MedicationNote ==
  result # <<>> =>
    /\ (MedicationNote \in Items(result[1].suggestions)) <=> MedsMatched(user_text)
    /\ result[1].mentions_meds <=> MedsMatched(user_text)

\* an EMERGENCY result that carries the medication line
C3_Witness ==
  /\ result # <<>>
  /\ result[1].urgency = TierEmergency
  /\ MedsMatched(user_text)
  /\ MedicationNote \in Items(result[1].suggestions)

\* C4: text that is empty or whitespace-only yields the prompt to enter text
\* and no bundle, banner, suggestion or export; a bundle is produced only for
\* text that is non-empty after trimming.
C4_EmptyRejected ==
  /\ result # <<>> => Strip(user_text) # <<>>
  /\ export_text # <<>> => Strip(user_text) # <<>>
  /\ (tab1 # <<>> /\ Strip(user_text) = <<>>) => tab1 = EmptyInputWarning
  /\ tab1 = EmptyInputWarning =>
       Strip(user_text) = <<>> /\ result = <<>> /\ export_text = <<>>

\* "Generate suggestions" was pressed on whitespace-only text
C4_Witness ==
  /\ user_text # <<>>
  /\ Strip(user_text) = <<>>
  /\ tab1 = EmptyInputWarning

\* the copy of the input between the fixed head and tail of the message
Embedded(r) == SubSeq(r.clinician_msg, 2, Len(r.clinician_msg) - 1)

\* C5 as stated: the embedded copy is the first 400 characters of the
\* original input, the whole input when it has 400 characters or fewer.
C5_PrefixOfOriginal ==
  result # <<>> => Embedded(result[1]) = Take(user_text, TruncLen)

\* C5 amended: the embedded copy is the first 400 characters of the input
\* with leading and trailing whitespace removed, in the input's own case; it
\* is the whole trimmed input when that has 400 characters or fewer.
C5_PrefixOfTrimmed ==
  result # <<>> =>
    LET emb == Embedded(result[1])
        s   == Strip(user_text)
    IN  /\ Len(emb) <= TruncLen
        /\ Len(emb) <= Len(s)
        /\ emb = SubSeq(s, 1, Len(emb))
        /\ Len(s) <= TruncLen => emb = s
        /\ Len(s) > TruncLen => Len(emb) = TruncLen
        /\ result[1].clinician_msg[1] = ClinicianHead
        /\ result[1].clinician_msg[Len(result[1].clinician_msg)] = ClinicianTail

\* a padded input in mixed case whose trimmed text is cut at 400 characters
C5_Witness ==
  /\ result # <<>>
  /\ user_text # Strip(user_text)
  /\ Len(Strip(user_text)) > TruncLen
  /\ Len(Embedded(result[1])) = TruncLen

\* needle occurs in hay as a contiguous run
Contains(hay, needle) ==
  \E i \in 0..(Len(hay) - Len(needle)) :
    SubSeq(hay, i + 1, i + Len(needle)) = needle

\* the text of the export between the headers "USER INPUT:" and "URGENCY:"
UserInputSection ==
  LET h == CHOOSE i \in 1..Len(export_text) : export_text[i] = <<"USER INPUT:">>
  IN  <<"\n">> \o export_text[h + 1] \o <<"\n">> \o export_text[h + 2] \o <<"\n">>

\* C6 as stated: the USER INPUT section of the export contains the original
\* input verbatim.
C6_OriginalInExport ==
  export_text # <<>> => Contains(UserInputSection, user_text)

\* C6 amended: the USER INPUT section of the export is the input with
\* leading and trailing whitespace removed, untruncated, also when the input
\* is longer than 400 characters and the copy in the message was cut.
C6_TrimmedInExport ==
  export_text # <<>> =>
    /\ export_text[4] = <<"USER INPUT:">>
    /\ export_text[5] = Strip(user_text)
    /\ export_text[6] = <<>>
    /\ Len(export_text[5]) >= Len(Embedded(result[1]))

\* an export whose input line is longer than the copy in the message
C6_Witness ==
  /\ export_text # <<>>
  /\ Len(export_text[5]) > TruncLen
  /\ Len(Embedded(result[1])) = TruncLen

\* C7 as stated: scenario 1 yields the three topics and the tier NON_URGENT.
C7_ScenarioNonUrgent ==
  (result # <<>> /\ user_text = Scenario1) =>
    /\ {"memory_or_confusion", "eating_drinking", "agitation_or_anxiety"}
         \subseteq Items(result[1].topics)
    /\ result[1].urgency = TierNonUrgent

\* C7 amended: scenario 1 yields the three topics and the tier URGENT, the
\* word "fell" matching the urgent rule "Fall or head impact"; no emergency
\* rule matches.
C7_ScenarioUrgent ==
  (result # <<>> /\ user_text = Scenario1) =>
    /\ {"memory_or_confusion", "eating_drinking", "agitation_or_anxiety"}
         \subseteq Items(result[1].topics)
    /\ result[1].urgency = TierUrgent
    /\ result[1].urgent_hits = <<"Fall or head impact">>
    /\ result[1].emergency_hits = <<>>

\* the bundle of scenario 1
C7_Witness == result # <<>> /\ user_text = Scenario1

care_log == session.care_log

\* one step of the shell, as the claim describes the care log
CareLogStep ==
  /\ (\E form \in FormInputs, ts \in Times : SubmitLog(form, ts)) =>
       /\ Len(care_log') = Len(care_log) + 1
       /\ SubSeq(care_log', 1, Len(care_log)) = care_log
  /\ ClearLog => care_log' = <<>>
  /\ Len(care_log') < Len(care_log) => ClearLog
  /\ care_log' # care_log =>
       ClearLog \/ \E form \in FormInputs, ts \in Times : SubmitLog(form, ts)
  /\ care_log' # care_log => ~Generate
  /\ (DownloadCsv \/ ClearLog) => care_log # <<>>

\* the CSV download and the clear button are rendered iff the log has entries
LogWidgets ==
  /\ Offered("download_button") <=> care_log # <<>>
  /\ Offered("button") <=> care_log # <<>>

\* C8: a submit appends one entry and keeps the earlier entries and their
\* order; only "Clear all log entries" removes entries, and it empties the
\* log; generating suggestions leaves the log alone; the CSV export and the
\* clear operation are offered only while the log has entries.
C8_AppendOnlyLog == [][LogWidgets /\ LogWidgets' /\ CareLogStep]_vars

\* a log of two different entries with the export and the clear offered
C8_Witness ==
  /\ Len(care_log) >= 2
  /\ care_log[1] # care_log[2]
  /\ Offered("button") /\ Offered("download_button")

\* build_response run alone, on the tables as loaded
BuildAlone(text) ==
  LET t == normalize(text)
      e == find_matches(EMERGENCY_PATTERNS, t)
      u == find_matches(URGENT_PATTERNS, t)
      topic(n) == TopicMatched(n, text)
      topics == SelectSeq(TopicNamesSorted, topic)
      m == MedsMatched(text)
  IN  [urgency        |-> Urgency(e, u).urgency,
       urgency_color  |-> Urgency(e, u).urgency_color,
       emergency_hits |-> e,
       urgent_hits    |-> u,
       topics         |-> topics,
       mentions_meds  |-> m,
       suggestions    |-> ExpectedSuggestions(text),
       tracking       |-> TRACKING,
       clinician_msg  |-> ClinicianMsg(text)]

\* C9: interleaved invocations leave the tables unchanged, and each returns
\* the bundle that the same call returns when run alone.
C9_PureCalls ==
  /\ globals = ModuleGlobals
  /\ \A c \in Calls :
       calls[c].pc = "done" => calls[c].ret = <<BuildAlone(calls[c].user_text)>>

\* an invocation returned while another, on another text, is in progress
C9_Witness ==
  \E c, d \in Calls :
    /\ calls[c].pc = "done"
    /\ calls[d].pc \in {"urgent", "topics", "meds", "assemble"}
    /\ calls[c].user_text # calls[d].user_text
    /\ calls[c].ret[1].emergency_hits # <<>>

\* the lines of the export after "SUGGESTIONS:" up to the next empty line
SuggestionSection ==
  LET h   == CHOOSE i \in 1..Len(export_text) : export_text[i] = <<"SUGGESTIONS:">>
      end == Min({i \in (h + 1)..Len(export_text) : export_text[i] = <<>>})
  IN  SubSeq(export_text, h + 1, end - 1)

\* C10: the SUGGESTIONS section of the export lists the elements of the
\* suggestion sequence other than the divider, once each and in order, and
\* has one line fewer than the sequence.
C10_ExportWithoutDivider ==
  export_text # <<>> =>
    LET s   == result[1].suggestions
        sec == SuggestionSection
        d   == CHOOSE i \in 1..Len(s) : s[i] = Divider
    IN  /\ Len(sec) = Len(s) - 1
        /\ \A i \in 1..Len(sec) :
             sec[i] = <<"- " \o (IF i < d THEN s[i] ELSE s[i + 1])>>
        /\ \A i \in 1..Len(sec) : sec[i] # <<"- " \o Divider>>

\* an export of a bundle with action lines or topic blocks before the divider
C10_Witness ==
  /\ export_text # <<>>
  /\ Len(result[1].suggestions) > 6
  /\ Len(SuggestionSection) = Len(result[1].suggestions) - 1

====
